---- MODULE Spec2Model ----
(***************************************************************************)
(* dateparser/conf.py: the Settings class (option snapshots, replace,      *)
(* get_key, the lazily loaded option table) and the apply_settings         *)
(* decorator.                                                              *)
(*                                                                         *)
(* Python strings are sequences of one-character strings, so that sorting, *)
(* formatting and concatenation are computed and not assumed.  A Python    *)
(* dict is the sequence of its <<key, value>> items in insertion order,    *)
(* with distinct keys.  A Python value is a record [t, i, s, m]: t is the  *)
(* type, i the payload of an int / bool / object reference, s the payload  *)
(* of a str (or the items of a list), m the items of a dict.               *)
(*                                                                         *)
(* The class decorator `registry` comes from dateparser.utils, which is    *)
(* not among these sources; Settings(...) is taken as ordinary             *)
(* instantiation followed by __init__.                                     *)
(***************************************************************************)
EXTENDS Integers, Sequences, FiniteSets, TLC

VARIABLES
    module,       \* progress of the import of dateparser.conf (line 71)
    pyfile_data,  \* Settings._pyfile_data, the class attribute of line 28
    reads,        \* how many times lines 48-49 read the external source
    heap,         \* instance __dict__ of the live Settings objects; heap[1] is `settings`
    last,         \* the most recent call made by the client and its outcome
    tpc,          \* per thread: position inside _get_settings_from_pyfile
    caller,       \* per thread: the call site that entered _get_settings_from_pyfile
    got           \* per thread: what _get_settings_from_pyfile returned to it

vars == <<module, pyfile_data, reads, heap, last, tpc, caller, got>>

---------------------------------------------------------------------------
(* Bounds of the model.                                                    *)

NumThreads == 3
MaxReads == 3

Threads == 1..NumThreads
Importer == 1

---------------------------------------------------------------------------
(* Strings.                                                                *)

\* The characters the model uses, in code point order (str comparison in
\* sorted() is by code point).
Alphabet ==
    << "-", "0", "1", "2", "3", "4", "5", "6", "7", "8", "9",
       "A", "B", "F", "N", "T", "X", "_",
       "a", "d", "e", "f", "g", "i", "l", "m", "n", "o", "r", "s", "t", "u" >>

Ord(c) == CHOOSE k \in 1..Len(Alphabet) : Alphabet[k] = c

MinNat(a, b) == IF a < b THEN a ELSE b

\* a < b for Python str
StrLess(a, b) ==
    \E k \in 1..(MinNat(Len(a), Len(b)) + 1) :
        /\ \A j \in 1..(k - 1) : a[j] = b[j]
        /\ IF k <= Len(a) /\ k <= Len(b)
              THEN Ord(a[k]) < Ord(b[k])
              ELSE k > Len(a) /\ k <= Len(b)

DigitChars == << "0", "1", "2", "3", "4", "5", "6", "7", "8", "9" >>

RECURSIVE Digits(_)
Digits(n) ==
    IF n < 10 THEN << DigitChars[n + 1] >>
    ELSE Digits(n \div 10) \o << DigitChars[(n % 10) + 1] >>

---------------------------------------------------------------------------
(* Values.                                                                 *)

NoneV == [t |-> "None", i |-> 0, s |-> <<>>, m |-> <<>>]
IntV(n) == [t |-> "int", i |-> n, s |-> <<>>, m |-> <<>>]
BoolV(b) == [t |-> "bool", i |-> IF b THEN 1 ELSE 0, s |-> <<>>, m |-> <<>>]
StrV(x) == [t |-> "str", i |-> 0, s |-> x, m |-> <<>>]
ListV(x) == [t |-> "list", i |-> 0, s |-> x, m |-> <<>>]
DictV(d) == [t |-> "dict", i |-> 0, s |-> <<>>, m |-> d]
RefV(r) == [t |-> "Settings", i |-> r, s |-> <<>>, m |-> <<>>]

\* bool(v): the test behind `if settings:`, `not settings`, `a or b`
Truthy(v) ==
    CASE v.t = "None" -> FALSE
      [] v.t = "int" -> v.i # 0
      [] v.t = "bool" -> v.i = 1
      [] v.t = "str" -> v.s # <<>>
      [] v.t = "list" -> v.s # <<>>
      [] v.t = "dict" -> v.m # <<>>
      [] v.t = "Settings" -> TRUE

\* str(v) for the values an override can hold
Str(v) ==
    CASE v.t = "None" -> << "N", "o", "n", "e" >>
      [] v.t = "int" -> IF v.i < 0 THEN << "-" >> \o Digits(0 - v.i) ELSE Digits(v.i)
      [] v.t = "bool" -> IF v.i = 1 THEN << "T", "r", "u", "e" >>
                                   ELSE << "F", "a", "l", "s", "e" >>
      [] v.t = "str" -> v.s

---------------------------------------------------------------------------
(* Dicts.                                                                  *)

Keys(d) == [k \in 1..Len(d) |-> d[k][1]]
KeySet(d) == {d[k][1] : k \in 1..Len(d)}
Has(d, key) == \E k \in 1..Len(d) : d[k][1] = key
Get(d, key) == d[CHOOSE k \in 1..Len(d) : d[k][1] = key][2]

\* d[key] = v
SetItem(d, key, v) ==
    IF Has(d, key)
       THEN [k \in 1..Len(d) |-> IF d[k][1] = key THEN <<key, v>> ELSE d[k]]
       ELSE Append(d, <<key, v>>)

\* The mutant of setdefault below: an assignment, which overwrites.
SetDefaultOverwrites(d, key, v) == SetItem(d, key, v)

\* d.setdefault(key, v)
SetDefault(d, key, v) == IF Has(d, key) THEN d ELSE Append(d, <<key, v>>)

---------------------------------------------------------------------------
(* Names.                                                                  *)

NameA == << "A" >>
NameB == << "B" >>
NameX == << "X" >>
N_default == << "_", "d", "e", "f", "a", "u", "l", "t" >>
N_mod_settings ==
    << "_", "m", "o", "d", "_", "s", "e", "t", "t", "i", "n", "g", "s" >>

\* dateparser_data.settings.settings: the option table the import of line 48
\* supplies (two options, A and B).
Source == << <<NameA, IntV(2)>>, <<NameB, StrV(<< "2" >>)>> >>

\* The items a caller puts in an override mapping: an option of the table (A)
\* and a name the table does not have (X); option B is never overridden, so
\* every overlay has an option that keeps the receiver's value.
OverrideNames == {NameA, NameX}
Items ==
    {<<NameA, v>> : v \in {NoneV, IntV(1), StrV(<< "1" >>), StrV(<< "1", "X", "-", "1" >>)}}
    \cup {<<NameX, v>> : v \in {NoneV, IntV(1)}}

\* Every dict over OverrideNames, in every insertion order.
Mappings ==
    {<<>>} \cup {<<p>> : p \in Items}
           \cup {d \in {<<p, q>> : p \in Items, q \in Items} : d[1][1] # d[2][1]}

NoNone(d) == \A k \in 1..Len(d) : d[k][2] # NoneV
SamePairs(d, e) == {d[k] : k \in 1..Len(d)} = {e[k] : k \in 1..Len(e)}

---------------------------------------------------------------------------
(* Settings.get_key, lines 37-43.                                          *)

\* '%s-%s' % (key, str(settings[key]))
Fmt(key, v) == key \o << "-" >> \o Str(v)

RECURSIVE InsertSorted(_, _)
InsertSorted(x, xs) ==
    IF xs = <<>> THEN << x >>
    ELSE IF StrLess(x, Head(xs)) THEN << x >> \o xs
    ELSE << Head(xs) >> \o InsertSorted(x, Tail(xs))

RECURSIVE SortFrom(_, _)
SortFrom(xs, acc) ==
    IF xs = <<>> THEN acc ELSE SortFrom(Tail(xs), InsertSorted(Head(xs), acc))

\* The mutant of sorted below: the list is left in iteration order.
sortedKeepsOrder(xs) == xs

\* sorted(xs) for a list of str
sorted(xs) == SortFrom(xs, <<>>)

RECURSIVE Join(_)
Join(xs) == IF xs = <<>> THEN <<>> ELSE Head(xs) \o Join(Tail(xs))

\* The string get_key hands to hashlib.md5 for a non-empty dict d.
KeyString(d) == Join(sorted([k \in 1..Len(d) |-> Fmt(d[k][1], d[k][2])]))

\* hashlib.md5(x).hexdigest(): 32 hexadecimal characters determined by x.
\* The digest is kept symbolic: equal inputs give equal digests and the model
\* takes different inputs to different digests.
md5hex(x) == [kind |-> "md5", data |-> x]

DefaultKey == [kind |-> "literal", data |-> << "d", "e", "f", "a", "u", "l", "t" >>]
NoKey == [kind |-> "none", data |-> <<>>]

\* Settings.get_key(settings)
get_key(settings) ==
    IF ~Truthy(settings) THEN DefaultKey ELSE md5hex(KeyString(settings.m))

---------------------------------------------------------------------------
(* Settings objects.                                                       *)

BaseId == 1
SnapId == 2

AttributeError == [t |-> "AttributeError", i |-> 0, s |-> <<>>, m |-> <<>>]

\* The class attributes of lines 27 and 29, found when the instance has none.
ClassAttr(name) ==
    IF name = N_default THEN BoolV(TRUE)
    ELSE IF name = N_mod_settings THEN DictV(<<>>)
    ELSE AttributeError

\* getattr(obj, name), obj given by its instance __dict__
getattr(obj, name) == IF Has(obj, name) THEN Get(obj, name) ELSE ClassAttr(name)

\* The mutant of the test of line 47: the cached table is never trusted.
NeedsLoadAlways(d) == TRUE

\* `if not cls._pyfile_data`, line 47
NeedsLoad(d) == ~Truthy(d)

\* _get_settings_from_pyfile run without interruption: the class attribute
\* after the call (also the value returned) and the reads of the source.
PyfileAfter(d) == IF NeedsLoad(d) THEN DictV(Source) ELSE d
ReadsAfter(d, r) == IF NeedsLoad(d) THEN r + 1 ELSE r

RECURSIVE _updateall(_, _)
\* for key, value in iterable: setattr(self, key, value)
_updateall(obj, iterable) ==
    IF iterable = <<>> THEN obj
    ELSE _updateall(SetItem(obj, Head(iterable)[1], Head(iterable)[2]), Tail(iterable))

\* Settings.__init__ on a fresh object; table is what
\* _get_settings_from_pyfile returns.
Settings__init__(settings, table) ==
    IF Truthy(settings) THEN _updateall(<<>>, settings.m)
    ELSE _updateall(<<>>, table.m)

\* Two mutants of FirstNone below: only the first keyword is validated; no
\* keyword is validated.
FirstNoneHeadOnly(kwds) == IF kwds # <<>> /\ kwds[1][2] = NoneV THEN 1 ELSE 0
FirstNoneNever(kwds) == 0

\* Lines 57-59: the position of the first keyword whose value is None,
\* 0 when there is none.
FirstNone(kwds) ==
    IF \E k \in 1..Len(kwds) : kwds[k][2] = NoneV
       THEN CHOOSE k \in 1..Len(kwds) :
                /\ kwds[k][2] = NoneV
                /\ \A j \in 1..(k - 1) : kwds[j][2] # NoneV
       ELSE 0

RECURSIVE FillDefaults(_, _, _)
\* Lines 61-62
FillDefaults(kwds, self, names) ==
    IF names = <<>> THEN kwds
    ELSE FillDefaults(SetDefault(kwds, Head(names), getattr(self, Head(names))),
                      self, Tail(names))

\* Lines 65-66
TagKwds(kwds, mod_settings) ==
    IF Truthy(mod_settings) THEN SetItem(kwds, N_mod_settings, mod_settings) ELSE kwds

\* Lines 61-66: the kwds handed to the constructor.
replace_kwds(self, mod_settings, kwds, table) ==
    TagKwds(SetItem(FillDefaults(kwds, self, Keys(table.m)), N_default, BoolV(FALSE)),
            mod_settings)

\* The mutant of Construct below: the receiver is updated in place as well.
ConstructInPlace(h, recv, obj) == << IF recv = BaseId THEN obj ELSE h[BaseId], obj >>

\* Line 68: the object self.__class__(settings=kwds) builds becomes the
\* client's current snapshot.  The instance the class hands back is taken to
\* be one initialised by __init__ with these kwds and distinct from `settings`.
Construct(h, recv, obj) == << h[BaseId], obj >>

---------------------------------------------------------------------------
(* apply_settings, lines 74-88.                                            *)

\* The mutant of wrapper_default below: an empty overlay instead of `settings`.
wrapper_defaultOverlay(mod_settings) ==
    IF Truthy(mod_settings) THEN mod_settings ELSE DictV(<<>>)

\* Line 78: mod_settings or settings
wrapper_default(mod_settings) ==
    IF Truthy(mod_settings) THEN mod_settings ELSE RefV(BaseId)

\* The mutant of isinstance_Settings below: the check is skipped.
isinstance_SettingsSkipped(v) == TRUE

\* Lines 80 and 83
isinstance_dict(v) == v.t = "dict"
isinstance_Settings(v) == v.t = "Settings"

---------------------------------------------------------------------------
(* The calls a client makes.                                               *)

NoCall ==
    [op |-> "none", recv |-> 0, mod |-> NoneV, kwds |-> <<>>, present |-> FALSE,
     arg |-> NoneV, err |-> "none", errkey |-> <<>>, ret |-> 0, called |-> FALSE,
     key |-> NoKey]

Init ==
    /\ module = "importing"
    /\ pyfile_data = NoneV
    /\ reads = 0
    /\ heap = <<>>
    /\ last = NoCall
    /\ tpc = [t \in Threads |-> "idle"]
    /\ caller = [t \in Threads |-> "none"]
    /\ got = [t \in Threads |-> NoneV]

threadVars == <<tpc, caller, got>>

\* Line 71, settings = Settings(), run as one step.
ModuleImport ==
    /\ module = "importing"
    /\ module' = "ready"
    /\ pyfile_data' = PyfileAfter(pyfile_data)
    /\ reads' = ReadsAfter(pyfile_data, reads)
    /\ heap' = << Settings__init__(NoneV, PyfileAfter(pyfile_data)) >>
    /\ last' = [NoCall EXCEPT !.op = "import", !.ret = BaseId]
    /\ UNCHANGED threadVars

\* The tag mappings a direct caller of replace passes as mod_settings.
OtherTag == << <<NameX, IntV(1)>> >>
ModChoices(kwds) ==
    {NoneV, DictV(OtherTag)} \cup (IF kwds = <<>> THEN {DictV(<<>>)} ELSE {})

\* heap[recv].replace(mod_settings=mod, **kwds)
Replace(recv, mod, kwds) ==
    /\ module = "ready"
    /\ recv \in 1..Len(heap)
    /\ UNCHANGED <<module, threadVars>>
    /\ IF FirstNone(kwds) # 0
          THEN /\ last' = [NoCall EXCEPT !.op = "replace", !.recv = recv, !.mod = mod,
                                         !.kwds = kwds, !.err = "TypeErrorOverride",
                                         !.errkey = kwds[FirstNone(kwds)][1]]
               /\ UNCHANGED <<pyfile_data, reads, heap>>
          ELSE /\ pyfile_data' = PyfileAfter(pyfile_data)
               /\ reads' = ReadsAfter(pyfile_data, reads)
               /\ heap' = Construct(heap, recv,
                              Settings__init__(
                                  DictV(replace_kwds(heap[recv], mod, kwds,
                                                     PyfileAfter(pyfile_data))),
                                  pyfile_data))
               /\ last' = [NoCall EXCEPT !.op = "replace", !.recv = recv, !.mod = mod,
                                         !.kwds = kwds, !.ret = SnapId]

\* The values a caller passes as the `settings` keyword of a wrapped function.
WrappedArgs ==
    {DictV(d) : d \in Mappings} \cup {RefV(r) : r \in 1..Len(heap)}
    \cup {NoneV, IntV(42), IntV(0), BoolV(FALSE), BoolV(TRUE), StrV(<<>>),
          StrV(<< "1" >>), ListV(<<>>), ListV(<< "1" >>)}

\* wrapper(settings=arg), or wrapper() when present is FALSE
Wrapped(present, arg) ==
    /\ module = "ready"
    /\ UNCHANGED <<module, threadVars>>
    /\ LET mod_settings == IF present THEN arg ELSE NoneV
           s == wrapper_default(mod_settings)
           call == [NoCall EXCEPT !.op = "wrapped", !.present = present, !.arg = arg]
       IN IF isinstance_dict(s)
             THEN IF FirstNone(s.m) # 0
                     THEN /\ last' = [call EXCEPT !.recv = BaseId, !.mod = mod_settings,
                                                  !.kwds = s.m,
                                                  !.err = "TypeErrorOverride",
                                                  !.errkey = s.m[FirstNone(s.m)][1]]
                          /\ UNCHANGED <<pyfile_data, reads, heap>>
                     ELSE /\ pyfile_data' = PyfileAfter(pyfile_data)
                          /\ reads' = ReadsAfter(pyfile_data, reads)
                          /\ heap' = Construct(heap, BaseId,
                                         Settings__init__(
                                             DictV(replace_kwds(heap[BaseId], mod_settings,
                                                                s.m,
                                                                PyfileAfter(pyfile_data))),
                                             pyfile_data))
                          /\ last' = [call EXCEPT !.recv = BaseId, !.mod = mod_settings,
                                                  !.kwds = s.m, !.ret = SnapId,
                                                  !.called = TRUE]
             ELSE /\ UNCHANGED <<pyfile_data, reads, heap>>
                  /\ IF isinstance_Settings(s)
                        THEN last' = [call EXCEPT !.ret = s.i, !.called = TRUE]
                        ELSE last' = [call EXCEPT !.err = "TypeErrorSettings"]

\* Settings.get_key(arg)
GetKey(arg) ==
    /\ module = "ready"
    /\ last' = [NoCall EXCEPT !.op = "get_key", !.arg = arg, !.key = get_key(arg)]
    /\ UNCHANGED <<module, pyfile_data, reads, heap, threadVars>>

Next ==
    \/ ModuleImport
    \/ \E recv \in {BaseId, SnapId}, kwds \in Mappings :
           \E mod \in ModChoices(kwds) : Replace(recv, mod, kwds)
    \/ \E arg \in WrappedArgs : Wrapped(TRUE, arg)
    \/ Wrapped(FALSE, NoneV)
    \/ \E arg \in {NoneV} \cup {DictV(d) : d \in Mappings} : GetKey(arg)

Spec == Init /\ [][Next]_vars

---------------------------------------------------------------------------
(* _get_settings_from_pyfile entered by several threads, one line at a     *)
(* time.  The module body runs under the import lock of dateparser.conf:   *)
(* the thread importing it executes line 71, and a thread holds the names  *)
(* Settings, settings and apply_settings only once that import is done.    *)

CallSites == {"__init__", "replace"}

\* A caller reaches line 35 or line 61.
TBegin(t, c) ==
    /\ tpc[t] = "idle"
    /\ \/ /\ module = "importing"
          /\ t = Importer
          /\ c = "__init__"
          /\ module' = "constructing"
       \/ /\ module = "ready"
          /\ module' = module
    /\ tpc' = [tpc EXCEPT ![t] = "line47"]
    /\ caller' = [caller EXCEPT ![t] = c]
    /\ got' = [got EXCEPT ![t] = NoneV]
    /\ UNCHANGED <<pyfile_data, reads, heap, last>>

\* Line 47
TCheck(t) ==
    /\ tpc[t] = "line47"
    /\ tpc' = [tpc EXCEPT ![t] = IF NeedsLoad(pyfile_data) THEN "line48" ELSE "line50"]
    /\ UNCHANGED <<module, pyfile_data, reads, heap, last, caller, got>>

\* Lines 48-49
TLoad(t) ==
    /\ tpc[t] = "line48"
    /\ reads < MaxReads
    /\ reads' = reads + 1
    /\ pyfile_data' = DictV(Source)
    /\ tpc' = [tpc EXCEPT ![t] = "line50"]
    /\ UNCHANGED <<module, heap, last, caller, got>>

\* Line 50; the import of the module then finishes line 71.
TReturn(t) ==
    /\ tpc[t] = "line50"
    /\ tpc' = [tpc EXCEPT ![t] = "idle"]
    /\ got' = [got EXCEPT ![t] = pyfile_data]
    /\ IF module = "constructing" /\ t = Importer
          THEN /\ module' = "ready"
               /\ heap' = << Settings__init__(NoneV, pyfile_data) >>
               /\ last' = [NoCall EXCEPT !.op = "import", !.ret = BaseId]
          ELSE UNCHANGED <<module, heap, last>>
    /\ UNCHANGED <<pyfile_data, reads, caller>>

NextLoad ==
    \/ \E t \in Threads, c \in CallSites : TBegin(t, c)
    \/ \E t \in Threads : TCheck(t)
    \/ \E t \in Threads : TLoad(t)
    \/ \E t \in Threads : TReturn(t)

SpecLoad == Init /\ [][NextLoad]_vars

---------------------------------------------------------------------------
(* Properties.                                                             *)

\* The call recorded in `last` ran Settings.replace (directly or from line 81).
RanReplace == last.op \in {"replace", "wrapped"} /\ last.recv # 0
NoneNames(d) == {d[k][1] : k \in {j \in 1..Len(d) : d[j][2] = NoneV}}
OptionNames == KeySet(pyfile_data.m)

\* C1: replace(**m) on the base snapshot with no None value in m, called
\* directly or from apply_settings for a non-empty m, returns a snapshot other
\* than the base that has every option of the table, m's value for every name
\* of m, the base's value for every option not in m, and _default False.
C1_OverlayValues ==
    (RanReplace /\ last.recv = BaseId /\ NoNone(last.kwds)) =>
        /\ last.err = "none"
        /\ last.ret = SnapId
        /\ last.ret # BaseId
        /\ \A n \in OptionNames : Has(heap[SnapId], n)
        /\ \A k \in 1..Len(last.kwds) :
               getattr(heap[SnapId], last.kwds[k][1]) = last.kwds[k][2]
        /\ \A n \in OptionNames \ KeySet(last.kwds) :
               getattr(heap[SnapId], n) = getattr(heap[BaseId], n)
        /\ getattr(heap[SnapId], N_default) = BoolV(FALSE)

C1_Witness ==
    /\ last.op = "wrapped"
    /\ last.recv = BaseId
    /\ last.err = "none"
    /\ Len(last.kwds) = 2
    /\ getattr(heap[SnapId], NameA) = IntV(1)
    /\ getattr(heap[SnapId], NameB) = Get(Source, NameB)

\* C2: the snapshot an overlay returns has _mod_settings equal to the override
\* mapping it received, or to the tag mapping when one is supplied; so for a
\* non-empty m the key of the _mod_settings of the snapshot made for m, by
\* replace(**m) and by apply_settings, is get_key(m).
C2_OverriddenIsOverrides ==
    (RanReplace /\ last.err = "none") =>
        LET ms == getattr(heap[SnapId], N_mod_settings) IN
        /\ ms = IF last.mod # NoneV THEN last.mod ELSE DictV(last.kwds)
        /\ (last.kwds # <<>> /\ last.mod \in {NoneV, DictV(last.kwds)}) =>
               get_key(ms) = get_key(DictV(last.kwds))

\* C3: when some value of the overrides is None, replace (called directly or
\* from apply_settings) fails with the TypeError that names a key whose value
\* is None, returns no snapshot, does not call the wrapped function, and
\* leaves every object as it was.
C3_NoneRejected ==
    /\ [](RanReplace /\ ~NoNone(last.kwds) =>
              /\ last.err = "TypeErrorOverride"
              /\ last.errkey \in NoneNames(last.kwds)
              /\ last.ret = 0
              /\ ~last.called)
    /\ [][(RanReplace /\ ~NoNone(last.kwds))' => heap' = heap]_vars

C3_Witness ==
    /\ last.op = "wrapped"
    /\ last.err = "TypeErrorOverride"
    /\ Len(last.kwds) = 2
    /\ last.kwds[1][2] # NoneV
    /\ last.errkey = last.kwds[2][1]
    /\ Len(heap) = 2

\* C4: get_key gives the same key to every mapping with the same name/value
\* pairs, whatever the insertion order.
C4_KeyOrderIndependent ==
    (last.op = "get_key" /\ last.arg.t = "dict") =>
        \A d \in Mappings :
            SamePairs(d, last.arg.m) => get_key(DictV(d)) = last.key

C4_Witness ==
    /\ last.op = "get_key"
    /\ Len(last.arg.m) = 2
    /\ last.arg.m[1][1] = NameX
    /\ last.key = md5hex(Fmt(last.arg.m[2][1], last.arg.m[2][2])
                         \o Fmt(last.arg.m[1][1], last.arg.m[1][2]))

\* C5: two non-empty mappings that differ in a name or a value give different
\* strings to the digest, hence different keys, and no non-empty mapping has
\* the key "default".
C5_KeyIdentifiesOverrides ==
    (last.op = "get_key" /\ Truthy(last.arg)) =>
        /\ last.key # DefaultKey
        /\ \A d \in Mappings \ {<<>>} :
               ~SamePairs(d, last.arg.m) =>
                   /\ KeyString(d) # KeyString(last.arg.m)
                   /\ get_key(DictV(d)) # last.key

\* C6, as stated: a `settings` keyword that is present and is neither a dict
\* nor a Settings object (42, 0, False, '', []) makes the wrapper raise the
\* TypeError of line 84 without calling the wrapped function.
C6_NonMappingRejected ==
    (last.op = "wrapped" /\ last.present
        /\ last.arg.t \notin {"dict", "Settings", "None"}) =>
        /\ last.err = "TypeErrorSettings"
        /\ ~last.called

\* C6, amended: a present `settings` that is neither a dict nor a Settings
\* object raises that TypeError, the wrapped function not being called, when
\* it is truthy (42, True, '1', ['1']); when it is falsy (0, False, '', [])
\* the wrapped function is called with the base snapshot and nothing is raised.
C6_TruthyNonMappingRejected ==
    (last.op = "wrapped" /\ last.present
        /\ last.arg.t \notin {"dict", "Settings", "None"}) =>
        IF Truthy(last.arg)
           THEN last.err = "TypeErrorSettings" /\ ~last.called /\ last.ret = 0
           ELSE last.err = "none" /\ last.called /\ last.ret = BaseId

C6_Witness ==
    /\ last.op = "wrapped"
    /\ last.present
    /\ last.arg = IntV(42)
    /\ last.err = "TypeErrorSettings"
    /\ ~last.called

\* C7: with `settings` absent or falsy the wrapped function receives the base
\* snapshot itself, its values and _default = True untouched; with a Settings
\* object it receives that very object; and handing the received object to
\* the wrapper again resolves to the same object, no object being built or
\* changed on the way.
C7_NoRewrapping ==
    /\ [](last.op = "wrapped" =>
            /\ (~last.present \/ ~Truthy(last.arg)) =>
                   /\ last.called
                   /\ last.ret = BaseId
                   /\ getattr(heap[BaseId], N_default) = BoolV(TRUE)
                   /\ \A n \in OptionNames :
                          getattr(heap[BaseId], n) = Get(Source, n)
            /\ (last.present /\ last.arg.t = "Settings") =>
                   last.called /\ last.ret = last.arg.i
            /\ last.called =>
                   LET again == wrapper_default(RefV(last.ret)) IN
                   /\ ~isinstance_dict(again)
                   /\ isinstance_Settings(again)
                   /\ again.i = last.ret)
    /\ [][(last.op = "wrapped" /\ ~isinstance_dict(last.arg))' => heap' = heap]_vars

C7_Witness ==
    /\ last.op = "wrapped"
    /\ last.present
    /\ last.arg = RefV(SnapId)
    /\ last.called
    /\ last.ret = SnapId
    /\ getattr(heap[SnapId], N_default) = BoolV(FALSE)

C9_NoNoneOption ==
    \A r \in 1..Len(heap) :
        \A k \in 1..Len(heap[r]) :
            heap[r][k][1] \notin {N_default, N_mod_settings} => heap[r][k][2] # NoneV

C9_Witness ==
    /\ Len(heap) = 2
    /\ last.op = "replace"
    /\ last.recv = SnapId
    /\ last.err = "TypeErrorOverride"
    /\ Has(heap[SnapId], NameX)

\* C10: after any calls of replace and of wrapped functions, failed or not,
\* the base snapshot has its initial option values, _default = True and an
\* empty _mod_settings, and the option table is as loaded.
C10_BaseUntouched ==
    module = "ready" =>
        /\ heap[BaseId] = Source
        /\ getattr(heap[BaseId], N_default) = BoolV(TRUE)
        /\ getattr(heap[BaseId], N_mod_settings) = DictV(<<>>)
        /\ pyfile_data = DictV(Source)

C10_Witness ==
    /\ last.op = "replace"
    /\ last.recv = BaseId
    /\ last.err = "none"
    /\ getattr(heap[SnapId], NameA) # getattr(heap[BaseId], NameA)
    /\ getattr(heap[SnapId], N_mod_settings) = DictV(OtherTag)

====
